---- MODULE Spec2Model ----
(***************************************************************************)
(* TourGenie: the tour-creation flow (App.tsx startGeneration over         *)
(* TourService) and the video-editor flow (clip upload, analysis, render   *)
(* and publish simulation), as a state machine.                            *)
(*                                                                         *)
(* JavaScript runs one handler at a time: an action is the code a handler  *)
(* runs between two awaits.  A state updater setX(prev => ...) is applied  *)
(* to the current state; a value read from a closure (input, editorState)  *)
(* is the value captured when the handler was started.                     *)
(***************************************************************************)
EXTENDS Integers, Sequences, FiniteSets, TLC

\* ---------------------------------------------------------------- bounds
MaxScenes == 2      \* longest storyboard the remote model replies with
MaxLongScenes == 9  \* longest storyboard where only the run's progress is followed
MaxShots  == 2      \* most screenshots selected in the tour form
MaxPolls  == 2      \* the poll counter saturates here (the loop has no bound)
MaxClips  == 2      \* most clip files ever selected in the editor
Scale     == 2      \* currentProgress is kept in units of 1/Scale

\* -------------------------------------------------------------- constants
MIN_DURATION == 30
MaxSimulated == 99  \* Math.min(currentProgress + ..., 99)
Undefined == -1     \* screenshotIndex: undefined

NoError == "<null>"

VARIABLES
  hasKey,          \* useState<boolean | null>: "null", "true" or "false"
  envKey,          \* process.env.API_KEY is a usable key (fixed by the build)
  aistudio,        \* window.aistudio offers the key functions (fixed by the host)
  keyCheck,        \* checkKeyStatus (mount effect) has not yet set hasKey
  keySel,          \* an openSelectKey() call is pending
  error,           \* useState<string | null>
  input,           \* AppInput: name, description, screenshots
  pendingShots,    \* FileReaders of handleScreenshotUpload not yet loaded
  step,            \* state.step
  scenes,          \* state.scenes (the Scene objects, shared with updatedScenes)
  progress,        \* state.progress
  tourPc,          \* where the startGeneration run is: none/storyboard/loop/video/narration
  sceneIdx,        \* i of the scene loop (1-based position in scenes)
  runShots,        \* input.screenshots.length as captured by the run's closure
  vpc,             \* where generateSceneVideo is: idle/create/sleep/poll/fetch/blob
  operation,       \* the last operation object received: none/running/doneUri/doneNoUri
  polls,           \* getVideosOperation calls made by the current call (saturating)
  videoResult,     \* how the last generateSceneVideo call settled: none/url/<message thrown>
  clips,           \* editorState.clips: the list, as ids of clip objects
  clipObjs,        \* the EditorClip objects ever put in the list, by id
  uploads,         \* file selections whose handleEditorVideoUpload still awaits durations
  isProcessing,    \* editorState.isProcessing
  includeVoiceover,\* editorState.includeVoiceover
  isRendering,     \* editorState.isRendering
  isRendered,      \* editorState.isRendered
  combinedVideoUrl,\* editorState.combinedVideoUrl: 0 (undefined) or the clip previewed
  youtubeMetadata, \* editorState.youtubeMetadata: [set, from]; from = the clips it was made from
  procPc,          \* where the processEditorClips run is: none/analyze/narration/metadata
  procClips,       \* updatedClips of the run
  procIdx,         \* i of the clip loop (1-based position in procClips)
  procVoice,       \* editorState.includeVoiceover as captured by the run's closure
  metaArg,         \* the clips passed to generateYouTubeMetadata
  renderPc,        \* where the handleRenderProject run is: none/stage/timer
  renderIdx,       \* the stage of the render loop (1..5)
  renderCurrent,   \* currentProgress of the render run, in 1/Scale units
  renderClips,     \* editorState.clips as captured by the render run's closure
  renderProgress,  \* useState renderProgress
  renderStage,     \* useState renderStage
  isUploading,     \* useState isUploading
  uploadProgress,  \* useState uploadProgress
  uploadStage,     \* useState uploadStage
  isUploadComplete,\* useState isUploadComplete
  pubPc,           \* where the handleYouTubePublish run is: none/stage/timer
  pubIdx,          \* the stage of the publish loop (1..5)
  pubCurrent       \* currentProgress of the publish run, in 1/Scale units

tourVars == <<input, pendingShots, step, scenes, progress, tourPc, sceneIdx,
              runShots, vpc, operation, polls, videoResult>>
keyVars  == <<hasKey, envKey, aistudio, keyCheck, keySel, error>>
clipVars == <<clips, clipObjs, uploads, isProcessing, includeVoiceover, youtubeMetadata,
              procPc, procClips, procIdx, procVoice, metaArg>>
renderVars == <<isRendering, isRendered, combinedVideoUrl, renderPc, renderIdx,
                renderCurrent, renderClips, renderProgress, renderStage>>
pubVars  == <<isUploading, uploadProgress, uploadStage, isUploadComplete, pubPc, pubIdx,
              pubCurrent>>
editorVars == <<clipVars, renderVars, pubVars>>
vars     == <<keyVars, tourVars, editorVars>>

\* ------------------------------------------------------------ error texts
\* Messages a service call may throw.  Includes(msg, t) is msg.includes(t).
MsgNoUri == "Video generation failed - no URI"
MsgTts   == "TTS generation failed"
ErrMsgs  == {"", "Failed to fetch", "got status: 403 PERMISSION_DENIED",
             "got status: 500 INTERNAL", "API_KEY rejected (500)",
             "Requested entity was not found.", "got status: 401 UNAUTHENTICATED",
             "API_KEY_INVALID", "HTTP 500", "INTERNAL: backend unavailable"}

KeyTokens      == {"Requested entity was not found", "API_KEY", "401", "403"}
InternalTokens == {"500", "INTERNAL"}

Tokens(msg) ==
  CASE msg = "got status: 403 PERMISSION_DENIED" -> {"403"}
    [] msg = "got status: 500 INTERNAL"          -> {"500", "INTERNAL"}
    [] msg = "API_KEY rejected (500)"            -> {"API_KEY", "500"}
    [] msg = "Requested entity was not found."   -> {"Requested entity was not found"}
    [] msg = "got status: 401 UNAUTHENTICATED"   -> {"401"}
    [] msg = "API_KEY_INVALID"                   -> {"API_KEY"}
    [] msg = "HTTP 500"                          -> {"500"}
    [] msg = "INTERNAL: backend unavailable"     -> {"INTERNAL"}
    [] OTHER                                     -> {}

Includes(msg, t) == t \in Tokens(msg)

\* handleGlobalError: which branch the message takes
IsKeyError(msg)      == \E t \in KeyTokens : Includes(msg, t)
IsInternalError(msg) == \E t \in InternalTokens : Includes(msg, t)

\* Handled, returning true for key errors only
HandledKeyOnly(msg) == IsKeyError(msg)

\* handleGlobalError's return value
Handled(msg) == IsKeyError(msg) \/ IsInternalError(msg)

\* handleGlobalError's setError argument
ErrorText(msg) ==
  IF IsKeyError(msg) THEN "API Key invalid or missing. Please check your credentials."
  ELSE IF IsInternalError(msg) THEN "Internal error (500). Please re-select your key."
  ELSE IF msg # "" THEN msg ELSE "An unexpected error occurred."

\* handleGlobalError's effect on hasKey
KeyAfter(msg) == IF Handled(msg) THEN "false" ELSE hasKey

\* handleGlobalError(e) as a state change
HandleGlobalError(msg) ==
  /\ error' = ErrorText(msg)
  /\ hasKey' = KeyAfter(msg)

isApiReady == hasKey = "true" \/ envKey

\* the modal overlays (render, upload) cover the page: no click gets through
Blocked == isRendering \/ isUploading

\* ------------------------------------------------------------- key status
\* checkKeyStatus, run once by the mount effect
CheckKeyStatus ==
  /\ keyCheck
  /\ keyCheck' = FALSE
  /\ \E selected \in {"true", "false"} :
       hasKey' = IF aistudio THEN selected ELSE "false"
  /\ UNCHANGED <<envKey, aistudio, keySel, error, tourVars>>
  /\ UNCHANGED editorVars

\* handleKeySelection up to its await
KeySelectionStart ==
  IF aistudio
    THEN /\ keySel' = TRUE
         /\ UNCHANGED <<hasKey, error>>
    ELSE /\ error' = "API Key selection is only available in the AI Studio environment."
         /\ UNCHANGED <<hasKey, keySel>>

\* the nav "Connect Key" button and the access-required panel's button
ClickConnectKey ==
  /\ ~Blocked /\ ~keySel
  /\ KeySelectionStart
  /\ UNCHANGED <<envKey, aistudio, keyCheck, tourVars>>
  /\ UNCHANGED editorVars

\* openSelectKey() resolved or rejected
KeySelectionDone ==
  /\ keySel
  /\ keySel' = FALSE
  /\ \/ hasKey' = "true" /\ error' = NoError
     \/ UNCHANGED <<hasKey, error>>
  /\ UNCHANGED <<envKey, aistudio, keyCheck, tourVars>>
  /\ UNCHANGED editorVars

\* "Dismiss" on the error banner
DismissError ==
  /\ ~Blocked /\ error # NoError
  /\ error' = NoError
  /\ UNCHANGED <<hasKey, envKey, aistudio, keyCheck, keySel, tourVars>>
  /\ UNCHANGED editorVars

\* --------------------------------------------------------- the tour form
Names  == {"", "FitTrack Pro"}
Images == {"data:image/png;base64,AAAA"}

\* the creator tab shows the form only when isApiReady and step is input
FormVisible == ~Blocked /\ isApiReady /\ step = "input"

\* onChange of the name and description fields
SetName ==
  /\ FormVisible
  /\ \E v \in Names : input' = [input EXCEPT !.name = v]
  /\ UNCHANGED <<keyVars, pendingShots, step, scenes, progress, tourPc, sceneIdx,
                 runShots, vpc, operation, polls, videoResult>>
  /\ UNCHANGED editorVars

SetDescription ==
  /\ FormVisible
  /\ \E v \in Names : input' = [input EXCEPT !.description = v]
  /\ UNCHANGED <<keyVars, pendingShots, step, scenes, progress, tourPc, sceneIdx,
                 runShots, vpc, operation, polls, videoResult>>
  /\ UNCHANGED editorVars

\* handleScreenshotUpload: one FileReader per selected file
HandleScreenshotUpload ==
  /\ FormVisible
  /\ \E k \in 1..MaxShots :
       /\ Len(input.screenshots) + pendingShots + k <= MaxShots
       /\ pendingShots' = pendingShots + k
  /\ UNCHANGED <<keyVars, input, step, scenes, progress, tourPc, sceneIdx,
                 runShots, vpc, operation, polls, videoResult>>
  /\ UNCHANGED editorVars

\* reader.onloadend: the file's data URL is appended
ScreenshotLoaded ==
  /\ pendingShots > 0
  /\ pendingShots' = pendingShots - 1
  /\ \E img \in Images :
       input' = [input EXCEPT !.screenshots = Append(@, img)]
  /\ UNCHANGED <<keyVars, step, scenes, progress, tourPc, sceneIdx,
                 runShots, vpc, operation, polls, videoResult>>
  /\ UNCHANGED editorVars

\* screenshots.filter((_, idx) => idx !== i)
RemoveAt(s, i) == [j \in 1..(Len(s) - 1) |-> IF j < i THEN s[j] ELSE s[j + 1]]

RemoveScreenshot ==
  /\ FormVisible
  /\ \E i \in 1..Len(input.screenshots) :
       input' = [input EXCEPT !.screenshots = RemoveAt(@, i)]
  /\ UNCHANGED <<keyVars, pendingShots, step, scenes, progress, tourPc, sceneIdx,
                 runShots, vpc, operation, polls, videoResult>>
  /\ UNCHANGED editorVars

\* ------------------------------------------------------- createStoryboards
\* CreateStoryboards, giving every scene the screenshot of its own number
CreateStoryboardsAllShots(n, shots) ==
  [p \in 1..n |->
     [item |-> p - 1, id |-> p - 1, status |-> "pending", videoUrl |-> FALSE,
      audioUrl |-> FALSE, screenshotIndex |-> p - 1]]

\* scenes.map((s, i) => ({...s, id: `scene-${i}`, status: 'pending',
\*                        screenshotIndex: i < screenshots.length ? i : undefined}))
\* for a reply of n scenes; position p of the sequence is the code's i = p - 1,
\* and item is what ...s copies: the reply's element, named by its place in the
\* reply.
CreateStoryboards(n, shots) ==
  [p \in 1..n |->
     [item |-> p - 1, id |-> p - 1, status |-> "pending", videoUrl |-> FALSE,
      audioUrl |-> FALSE,
      screenshotIndex |-> IF p - 1 < shots THEN p - 1 ELSE Undefined]]

\* ---------------------------------------------------------- startGeneration
\* StartGeneration, without the check of name and description
StartGenerationUnchecked ==
  /\ FormVisible
  /\ error' = NoError
  /\ step' = "processing"
  /\ progress' = 10
  /\ tourPc' = "storyboard"
  /\ runShots' = Len(input.screenshots)
  /\ UNCHANGED <<hasKey, keySel, input, pendingShots, scenes, sceneIdx,
                 vpc, operation, polls, videoResult>>
  /\ UNCHANGED <<envKey, aistudio, keyCheck>>
  /\ UNCHANGED editorVars

\* the "Generate" button: up to the first await
StartGeneration ==
  /\ FormVisible
  /\ IF ~isApiReady
       THEN /\ KeySelectionStart
            /\ UNCHANGED tourVars
       ELSE IF input.name = "" \/ input.description = ""
         THEN /\ error' = "Please provide at least a name and description."
              /\ UNCHANGED <<hasKey, keySel, tourVars>>
         ELSE /\ error' = NoError
              /\ step' = "processing"
              /\ progress' = 10
              /\ tourPc' = "storyboard"
              /\ runShots' = Len(input.screenshots)
              /\ UNCHANGED <<hasKey, keySel, input, pendingShots, scenes, sceneIdx,
                             vpc, operation, polls, videoResult>>
  /\ UNCHANGED <<envKey, aistudio, keyCheck>>
  /\ UNCHANGED editorVars

\* createStoryboards resolved with a reply of n scenes:
\* setState(step: 'generating', scenes, progress: 30)
StoryboardReturnsWith(n) ==
  /\ tourPc = "storyboard"
  /\ scenes' = CreateStoryboards(n, runShots)
  /\ step' = "generating"
  /\ progress' = 30
  /\ tourPc' = "loop"
  /\ sceneIdx' = 1
  /\ UNCHANGED <<keyVars, input, pendingShots, runShots, vpc, operation, polls,
                 videoResult>>
  /\ UNCHANGED editorVars

StoryboardReturns == \E n \in 0..MaxScenes : StoryboardReturnsWith(n)

\* the same, for the replies the response schema allows: an array of any length
LongStoryboardReturns == \E n \in 0..MaxLongScenes : StoryboardReturnsWith(n)

\* createStoryboards rejected: the outer catch
StoryboardThrows ==
  /\ tourPc = "storyboard"
  /\ \E msg \in ErrMsgs : HandleGlobalError(msg)
  /\ step' = "input"
  /\ tourPc' = "none"
  /\ UNCHANGED <<envKey, aistudio, keyCheck, keySel, input, pendingShots, scenes,
                 progress, sceneIdx, runShots, vpc, operation, polls, videoResult>>
  /\ UNCHANGED editorVars

\* progress while scene i (the code's zero-based i) is generated
SceneProgress(i) == 30 + (i * 10)

\* SceneLoop, starting every scene still pending at once
SceneLoopAll ==
  /\ tourPc = "loop"
  /\ IF sceneIdx <= Len(scenes)
       THEN /\ scenes' = [p \in 1..Len(scenes) |->
                            IF scenes[p].status = "pending"
                              THEN [scenes[p] EXCEPT !.status = "generating"]
                              ELSE scenes[p]]
            /\ progress' = SceneProgress(sceneIdx - 1)
            /\ tourPc' = "video"
            /\ vpc' = "create"
            /\ operation' = "none"
            /\ polls' = 0
            /\ videoResult' = "none"
            /\ UNCHANGED step
       ELSE /\ step' = "final"
            /\ progress' = 100
            /\ tourPc' = "none"
            /\ UNCHANGED <<scenes, vpc, operation, polls, videoResult>>
  /\ UNCHANGED <<keyVars, input, pendingShots, sceneIdx, runShots>>
  /\ UNCHANGED editorVars

\* the head of the scene loop: the next scene starts, or the loop is over
SceneLoop ==
  /\ tourPc = "loop"
  /\ IF sceneIdx <= Len(scenes)
       THEN /\ scenes' = [scenes EXCEPT ![sceneIdx].status = "generating"]
            /\ progress' = SceneProgress(sceneIdx - 1)
            /\ tourPc' = "video"
            /\ vpc' = "create"
            /\ operation' = "none"
            /\ polls' = 0
            /\ videoResult' = "none"
            /\ UNCHANGED step
       ELSE /\ step' = "final"
            /\ progress' = 100
            /\ tourPc' = "none"
            /\ UNCHANGED <<scenes, vpc, operation, polls, videoResult>>
  /\ UNCHANGED <<keyVars, input, pendingShots, sceneIdx, runShots>>
  /\ UNCHANGED editorVars

\* SceneCatch, sending the flow back to the form when the error is a key error
SceneCatchResets(msg) ==
  /\ HandleGlobalError(msg)
  /\ IF Handled(msg)
       THEN /\ tourPc' = "none"
            /\ step' = "input"
            /\ UNCHANGED <<scenes, sceneIdx>>
       ELSE /\ scenes' = [scenes EXCEPT ![sceneIdx].status = "failed"]
            /\ sceneIdx' = sceneIdx + 1
            /\ tourPc' = "loop"
            /\ UNCHANGED step
  /\ UNCHANGED <<envKey, aistudio, keyCheck, keySel, input, pendingShots,
                 progress, runShots>>

\* SceneCatch, ending the run at any error
SceneCatchStops(msg) ==
  /\ HandleGlobalError(msg)
  /\ tourPc' = "none"
  /\ UNCHANGED <<scenes, sceneIdx>>
  /\ UNCHANGED <<envKey, aistudio, keyCheck, keySel, input, pendingShots, step,
                 progress, runShots>>

\* the inner catch: handleGlobalError, then return or mark the scene failed
SceneCatch(msg) ==
  /\ HandleGlobalError(msg)
  /\ IF Handled(msg)
       THEN /\ tourPc' = "none"
            /\ UNCHANGED <<scenes, sceneIdx>>
       ELSE /\ scenes' = [scenes EXCEPT ![sceneIdx].status = "failed"]
            /\ sceneIdx' = sceneIdx + 1
            /\ tourPc' = "loop"
  /\ UNCHANGED <<envKey, aistudio, keyCheck, keySel, input, pendingShots, step,
                 progress, runShots>>

\* ------------------------------------------------------ generateSceneVideo
Operations == {"running", "doneUri", "doneNoUri"}
\* Done, taking an operation for finished only when it carries a video
DoneWithVideo(op) == op = "doneUri"

Done(op) == op \in {"doneUri", "doneNoUri"}

\* generateSceneVideo threw msg: the call is over and the scene's catch runs
VideoThrows(msg) ==
  /\ videoResult' = msg
  /\ vpc' = "idle"
  /\ SceneCatch(msg)

\* AfterOperation, downloading whatever the finished operation holds
AfterOperationUnchecked(op) ==
  /\ vpc' = IF ~Done(op) THEN "sleep" ELSE "fetch"
  /\ UNCHANGED <<videoResult, keyVars, scenes, sceneIdx, tourPc, input,
                 pendingShots, step, progress, runShots>>

\* where the call goes once `while (!operation.done)` has seen operation op
AfterOperation(op) ==
  IF ~Done(op)
    THEN /\ vpc' = "sleep"
         /\ UNCHANGED <<videoResult, keyVars, scenes, sceneIdx, tourPc, input,
                        pendingShots, step, progress, runShots>>
    ELSE IF op = "doneNoUri"
      THEN VideoThrows(MsgNoUri)
      ELSE /\ vpc' = "fetch"
           /\ UNCHANGED <<videoResult, keyVars, scenes, sceneIdx, tourPc, input,
                          pendingShots, step, progress, runShots>>

\* ai.models.generateVideos resolved with an operation
GenerateVideosReturns ==
  /\ tourPc = "video" /\ vpc = "create"
  /\ \E op \in Operations :
       /\ operation' = op
       /\ AfterOperation(op)
  /\ UNCHANGED polls
  /\ UNCHANGED editorVars

\* the 8 s sleep is over: getVideosOperation is called
PollSleepElapsed ==
  /\ tourPc = "video" /\ vpc = "sleep"
  /\ vpc' = "poll"
  /\ polls' = IF polls < MaxPolls THEN polls + 1 ELSE polls
  /\ UNCHANGED <<keyVars, input, pendingShots, step, scenes, progress, tourPc,
                 sceneIdx, runShots, operation, videoResult>>
  /\ UNCHANGED editorVars

\* getVideosOperation resolved with the operation's current state
PollReturns ==
  /\ tourPc = "video" /\ vpc = "poll"
  /\ \E op \in Operations :
       /\ operation' = op
       /\ AfterOperation(op)
  /\ UNCHANGED polls
  /\ UNCHANGED editorVars

\* generateVideos, getVideosOperation, fetch or blob rejected
VideoRequestFails ==
  /\ tourPc = "video" /\ vpc \in {"create", "poll", "fetch", "blob"}
  /\ \E msg \in ErrMsgs : VideoThrows(msg)
  /\ UNCHANGED <<operation, polls>>
  /\ UNCHANGED editorVars

\* fetch(downloadLink) resolved
FetchReturns ==
  /\ tourPc = "video" /\ vpc = "fetch"
  /\ vpc' = "blob"
  /\ UNCHANGED <<keyVars, input, pendingShots, step, scenes, progress, tourPc,
                 sceneIdx, runShots, operation, polls, videoResult>>
  /\ UNCHANGED editorVars

\* BlobReturns, storing the video in the scene as soon as it is downloaded
BlobReturnsStoresVideo ==
  /\ tourPc = "video" /\ vpc = "blob"
  /\ vpc' = "idle"
  /\ videoResult' = "url"
  /\ tourPc' = "narration"
  /\ scenes' = [scenes EXCEPT ![sceneIdx].videoUrl = TRUE]
  /\ UNCHANGED <<keyVars, input, pendingShots, step, progress,
                 sceneIdx, runShots, operation, polls>>
  /\ UNCHANGED editorVars

\* response.blob() resolved: the call returns the object URL and
\* startGeneration calls generateNarration
BlobReturns ==
  /\ tourPc = "video" /\ vpc = "blob"
  /\ vpc' = "idle"
  /\ videoResult' = "url"
  /\ tourPc' = "narration"
  /\ UNCHANGED <<keyVars, input, pendingShots, step, scenes, progress,
                 sceneIdx, runShots, operation, polls>>
  /\ UNCHANGED editorVars

\* ------------------------------------------------------- generateNarration
\* the scene's narration resolved with audio: the scene is completed
NarrationReturns ==
  /\ tourPc = "narration"
  /\ scenes' = [scenes EXCEPT ![sceneIdx] =
                  [@ EXCEPT !.videoUrl = TRUE, !.audioUrl = TRUE, !.status = "completed"]]
  /\ sceneIdx' = sceneIdx + 1
  /\ tourPc' = "loop"
  /\ UNCHANGED <<keyVars, input, pendingShots, step, progress, runShots, vpc,
                 operation, polls, videoResult>>
  /\ UNCHANGED editorVars

\* the request rejected, or the reply held no audio ("TTS generation failed")
NarrationThrows ==
  /\ tourPc = "narration"
  /\ \E msg \in ErrMsgs \cup {MsgTts} : SceneCatch(msg)
  /\ UNCHANGED <<vpc, operation, polls, videoResult>>
  /\ UNCHANGED editorVars

\* ------------------------------------------------------------ editor clips
Durations == {15, 30}

RECURSIVE SumDurations(_, _)
SumDurations(objs, cl) ==
  IF cl = <<>> THEN 0 ELSE objs[Head(cl)].duration + SumDurations(objs, Tail(cl))

\* totalDuration and isDurationValid of the current render
totalDuration   == SumDurations(clipObjs, clips)
isDurationValid == totalDuration >= MIN_DURATION

RECURSIVE PendingFiles(_)
PendingFiles(ups) == IF ups = <<>> THEN 0 ELSE Len(Head(ups)) + PendingFiles(Tail(ups))

\* the batches of k files, each file given by its video duration
Batches == UNION {[1..k -> Durations] : k \in 1..MaxClips}

\* handleEditorVideoUpload up to its first await (getVideoDuration)
HandleEditorVideoUpload ==
  /\ ~Blocked
  /\ \E b \in Batches :
       /\ Len(clipObjs) + PendingFiles(uploads) + Len(b) <= MaxClips
       /\ uploads' = Append(uploads, b)
  /\ UNCHANGED <<keyVars, tourVars, clips, clipObjs, isProcessing, includeVoiceover,
                 youtubeMetadata, procPc, procClips, procIdx, procVoice, metaArg,
                 renderVars, pubVars>>

\* the clip objects handleEditorVideoUpload builds for batch b: fresh ids, idle
NewClips(b) ==
  [k \in 1..Len(b) |->
     [status |-> "idle", duration |-> b[k], analysed |-> FALSE, audioUrl |-> FALSE]]

\* AppendClips, putting the new clips in front
PrependClips(cl, ids) == ids \o cl

\* setEditorState(prev => ({...prev, clips: [...prev.clips, ...newClips], isRendered: false}))
AppendClips(cl, ids) == cl \o ids

\* every duration of a batch is known: the new clips are appended
EditorUploadDone ==
  /\ \E u \in 1..Len(uploads) :
       LET b   == uploads[u]
           ids == [k \in 1..Len(b) |-> Len(clipObjs) + k]
       IN /\ clipObjs' = clipObjs \o NewClips(b)
          /\ clips' = AppendClips(clips, ids)
          /\ uploads' = RemoveAt(uploads, u)
  /\ isRendered' = FALSE
  /\ UNCHANGED <<keyVars, tourVars, isProcessing, includeVoiceover, youtubeMetadata,
                 procPc, procClips, procIdx, procVoice, metaArg, isRendering,
                 combinedVideoUrl, renderPc, renderIdx, renderCurrent, renderClips,
                 renderProgress, renderStage, pubVars>>

\* prev.clips.filter(c => c.id !== id)
WithoutClip(cl, id) == SelectSeq(cl, LAMBDA c : c # id)

\* removeClip: the trash button of a listed clip
RemoveClip ==
  /\ ~Blocked
  /\ \E k \in 1..Len(clips) : clips' = WithoutClip(clips, clips[k])
  /\ isRendered' = FALSE
  /\ UNCHANGED <<keyVars, tourVars, clipObjs, uploads, isProcessing, includeVoiceover,
                 youtubeMetadata, procPc, procClips, procIdx, procVoice, metaArg,
                 isRendering, combinedVideoUrl, renderPc, renderIdx, renderCurrent,
                 renderClips, renderProgress, renderStage, pubVars>>

\* the "AI Voice" toggle
ToggleVoiceover ==
  /\ ~Blocked
  /\ includeVoiceover' = ~includeVoiceover
  /\ UNCHANGED <<keyVars, tourVars, clips, clipObjs, uploads, isProcessing,
                 youtubeMetadata, procPc, procClips, procIdx, procVoice, metaArg,
                 renderVars, pubVars>>

\* ------------------------------------------------------ processEditorClips
\* FirstNotReady, without the `continue` for clips that are ready
NextPosition(objs, uc, j) == j

\* `if (clip.status === 'ready') continue`: the first position >= j not ready
RECURSIVE FirstNotReady(_, _, _)
FirstNotReady(objs, uc, j) ==
  IF j > Len(uc) THEN j
  ELSE IF objs[uc[j]].status = "ready" THEN FirstNotReady(objs, uc, j + 1)
  ELSE j

\* updatedClips.filter(c => c.status === 'ready')
ReadyClips(objs, uc) == SelectSeq(uc, LAMBDA c : objs[c].status = "ready")

\* what setEditorState(prev => ({...prev, clips: [...updatedClips]})) makes of the list
PublishClips(cl, uc) == uc

\* the clip loop from position `from` to its next await, with the objects objs
\* and the list cl as the code before it left them
ProcAdvance(objs, uc, from, cl) ==
  LET j == FirstNotReady(objs, uc, from) IN
  /\ procIdx' = j
  /\ IF j <= Len(uc)
       THEN /\ clipObjs' = [objs EXCEPT ![uc[j]].status = "analyzing"]
            /\ clips' = PublishClips(cl, uc)
            /\ procPc' = "analyze"
            /\ UNCHANGED metaArg
       ELSE /\ clipObjs' = objs
            /\ clips' = cl
            /\ procPc' = "metadata"
            /\ metaArg' = ReadyClips(objs, uc)

\* ProcessEditorClips, without the check of isApiReady
ProcessEditorClipsUnchecked ==
  /\ ~Blocked /\ Len(clips) > 0 /\ ~isProcessing
  /\ isProcessing' = TRUE
  /\ error' = NoError
  /\ procClips' = clips
  /\ procVoice' = includeVoiceover
  /\ ProcAdvance(clipObjs, clips, 1, clips)
  /\ UNCHANGED <<uploads, includeVoiceover, youtubeMetadata>>
  /\ UNCHANGED <<hasKey, envKey, aistudio, keyCheck, keySel, tourVars, renderVars,
                 pubVars>>

\* the "Analyze Project" button (shown when there are clips and no run): up to
\* the first await
ProcessEditorClips ==
  /\ ~Blocked /\ Len(clips) > 0 /\ ~isProcessing
  /\ IF ~isApiReady
       THEN /\ error' = "AI analysis requires an API Key."
            /\ UNCHANGED clipVars
       ELSE IF Len(clips) = 0
         THEN UNCHANGED <<error, clipVars>>
         ELSE /\ isProcessing' = TRUE
              /\ error' = NoError
              /\ procClips' = clips
              /\ procVoice' = includeVoiceover
              /\ ProcAdvance(clipObjs, clips, 1, clips)
              /\ UNCHANGED <<uploads, includeVoiceover, youtubeMetadata>>
  /\ UNCHANGED <<hasKey, envKey, aistudio, keyCheck, keySel, tourVars, renderVars,
                 pubVars>>

\* the run returns: its locals (updatedClips, i, the closure) are gone
ProcReturn ==
  /\ procPc' = "none"
  /\ procClips' = <<>>
  /\ procIdx' = 1
  /\ procVoice' = TRUE
  /\ metaArg' = <<>>

\* the status a clip is given once analyzeVideoClip returned
AfterAnalysis(voice) == IF voice THEN "generating-audio" ELSE "ready"

\* analyzeVideoClip resolved
AnalyzeReturns ==
  /\ procPc = "analyze"
  /\ LET id   == procClips[procIdx]
         objs == [clipObjs EXCEPT ![id].analysed = TRUE,
                                  ![id].status = AfterAnalysis(procVoice)]
     IN IF procVoice
          THEN /\ clipObjs' = objs
               /\ clips' = PublishClips(clips, procClips)
               /\ procPc' = "narration"
               /\ UNCHANGED <<procIdx, metaArg>>
          ELSE ProcAdvance(objs, procClips, procIdx + 1, PublishClips(clips, procClips))
  /\ UNCHANGED <<keyVars, tourVars, uploads, isProcessing, includeVoiceover,
                 youtubeMetadata, procClips, procVoice, renderVars, pubVars>>

\* ClipCatch, swallowing the error and going on with the next clip
ClipCatchContinues(msg) ==
  /\ HandleGlobalError(msg)
  /\ ProcAdvance([clipObjs EXCEPT ![procClips[procIdx]].status = "idle"],
                 procClips, procIdx + 1, clips)
  /\ UNCHANGED <<envKey, aistudio, keyCheck, keySel, tourVars, uploads, isProcessing,
                 includeVoiceover, youtubeMetadata, procClips, procVoice, renderVars,
                 pubVars>>

\* ClipCatch, leaving the failed clip's status as the call left it
ClipCatchKeepsStatus(msg) ==
  /\ HandleGlobalError(msg)
  /\ isProcessing' = FALSE
  /\ ProcReturn
  /\ UNCHANGED <<envKey, aistudio, keyCheck, keySel, tourVars, clips, clipObjs, uploads,
                 includeVoiceover, youtubeMetadata, renderVars, pubVars>>

\* the inner catch (status idle, rethrow) and the outer catch
ClipCatch(msg) ==
  /\ clipObjs' = [clipObjs EXCEPT ![procClips[procIdx]].status = "idle"]
  /\ HandleGlobalError(msg)
  /\ isProcessing' = FALSE
  /\ ProcReturn
  /\ UNCHANGED <<envKey, aistudio, keyCheck, keySel, tourVars, clips, uploads,
                 includeVoiceover, youtubeMetadata, renderVars, pubVars>>

\* analyzeVideoClip rejected
AnalyzeThrows ==
  /\ procPc = "analyze"
  /\ \E msg \in ErrMsgs : ClipCatch(msg)

\* generateNarration resolved with audio for the clip
ClipNarrationReturns ==
  /\ procPc = "narration"
  /\ LET id   == procClips[procIdx]
         objs == [clipObjs EXCEPT ![id].audioUrl = TRUE, ![id].status = "ready"]
     IN ProcAdvance(objs, procClips, procIdx + 1, PublishClips(clips, procClips))
  /\ UNCHANGED <<keyVars, tourVars, uploads, isProcessing, includeVoiceover,
                 youtubeMetadata, procClips, procVoice, renderVars, pubVars>>

\* generateNarration rejected, or its reply held no audio
ClipNarrationThrows ==
  /\ procPc = "narration"
  /\ \E msg \in ErrMsgs \cup {MsgTts} : ClipCatch(msg)

\* generateYouTubeMetadata resolved
MetadataReturns ==
  /\ procPc = "metadata"
  /\ isProcessing' = FALSE
  /\ youtubeMetadata' = [set |-> TRUE, from |-> metaArg]
  /\ ProcReturn
  /\ UNCHANGED <<keyVars, tourVars, clips, clipObjs, uploads, includeVoiceover,
                 renderVars, pubVars>>

\* MetadataThrows, keeping a description of the clips all the same
MetadataThrowsStores ==
  /\ procPc = "metadata"
  /\ \E msg \in ErrMsgs : HandleGlobalError(msg)
  /\ isProcessing' = FALSE
  /\ youtubeMetadata' = [set |-> TRUE, from |-> metaArg]
  /\ ProcReturn
  /\ UNCHANGED <<envKey, aistudio, keyCheck, keySel, tourVars, clips, clipObjs,
                 uploads, includeVoiceover, renderVars, pubVars>>

\* generateYouTubeMetadata rejected: the outer catch
MetadataThrows ==
  /\ procPc = "metadata"
  /\ \E msg \in ErrMsgs : HandleGlobalError(msg)
  /\ isProcessing' = FALSE
  /\ ProcReturn
  /\ UNCHANGED <<envKey, aistudio, keyCheck, keySel, tourVars, clips, clipObjs,
                 uploads, includeVoiceover, youtubeMetadata, renderVars, pubVars>>

\* ------------------------------------------------------- handleRenderProject
RenderStages == <<"Optimizing source assets...", "Encoding timeline segments...",
                  "Layering AI narration tracks...", "Applying cinematic transitions...",
                  "Stitching Master Project (MP4/H.264)...">>

\* the values of Math.random() * 1.8 and Math.random() * 2.5, in 1/Scale units
RenderIncs == {r \in 0..(2 * Scale) : 10 * r < 18 * Scale}
UploadIncs == {r \in 0..(3 * Scale) : 10 * r < 25 * Scale}

\* Advance, without the Math.min
AdvanceUncapped(cur, inc) == cur + inc

\* Math.min(currentProgress + increment, 99), in 1/Scale units
Advance(cur, inc) ==
  IF cur + inc < MaxSimulated * Scale THEN cur + inc ELSE MaxSimulated * Scale

\* Math.floor(currentProgress)
Floor(cur) == cur \div Scale

\* HandleRenderProject, offered and run whatever the project's length
HandleRenderProjectAnyLength ==
  /\ ~Blocked /\ youtubeMetadata.set /\ ~isRendered /\ ~isRendering
  /\ isRendering' = TRUE
  /\ renderProgress' = 0
  /\ renderCurrent' = 0
  /\ renderIdx' = 1
  /\ renderStage' = RenderStages[1]
  /\ renderClips' = clips
  /\ renderPc' = "enter"
  /\ UNCHANGED <<isRendered, combinedVideoUrl>>
  /\ UNCHANGED <<keyVars, tourVars, clipVars, pubVars>>

\* the "Render Master Project" button: shown with metadata, a valid duration and
\* no finished render; disabled while rendering
HandleRenderProject ==
  /\ ~Blocked /\ youtubeMetadata.set /\ isDurationValid /\ ~isRendered /\ ~isRendering
  /\ IF ~isDurationValid
       THEN UNCHANGED renderVars
       ELSE /\ isRendering' = TRUE
            /\ renderProgress' = 0
            /\ renderCurrent' = 0
            /\ renderIdx' = 1
            /\ renderStage' = RenderStages[1]
            /\ renderClips' = clips
            /\ renderPc' = "enter"
            /\ UNCHANGED <<isRendered, combinedVideoUrl>>
  /\ UNCHANGED <<keyVars, tourVars, clipVars, pubVars>>

\* one pass of the render loop's body, then the 100 ms sleep
RenderIterate ==
  /\ renderPc \in {"enter", "wait"}
  /\ \E inc \in RenderIncs :
       /\ renderCurrent' = Advance(renderCurrent, inc)
       /\ renderProgress' = Floor(Advance(renderCurrent, inc))
  /\ renderPc' = "wait"
  /\ UNCHANGED <<keyVars, tourVars, clipVars, pubVars, isRendering, isRendered,
                 combinedVideoUrl, renderIdx, renderClips, renderStage>>

\* the stage's duration has passed: the next stage starts, or the render is done
\* and the 1000 ms timer is set
RenderStageOver ==
  /\ renderPc = "wait"
  /\ IF renderIdx < Len(RenderStages)
       THEN /\ renderIdx' = renderIdx + 1
            /\ renderStage' = RenderStages[renderIdx + 1]
            /\ renderPc' = "enter"
            /\ UNCHANGED renderProgress
       ELSE /\ renderProgress' = 100
            /\ renderStage' = "Export Successful!"
            /\ renderPc' = "timer"
            /\ renderIdx' = 1
  /\ renderCurrent' = IF renderIdx < Len(RenderStages) THEN renderCurrent ELSE 0
  /\ UNCHANGED <<keyVars, tourVars, clipVars, pubVars, isRendering, isRendered,
                 combinedVideoUrl, renderClips>>

\* the timer's callback
RenderTimer ==
  /\ renderPc = "timer"
  /\ isRendering' = FALSE
  /\ isRendered' = TRUE
  /\ combinedVideoUrl' = IF Len(renderClips) > 0 THEN renderClips[1] ELSE 0
  /\ renderPc' = "none"
  /\ renderClips' = <<>>
  /\ UNCHANGED <<keyVars, tourVars, clipVars, pubVars, renderIdx, renderCurrent,
                 renderProgress, renderStage>>

\* ------------------------------------------------------ handleYouTubePublish
UploadStages == <<"Initializing YouTube Data API...", "Pre-flight master file check...",
                  "Syncing AI-Optimized Metadata...", "Transferring Master Video Project...",
                  "Finalizing Broadcast Processing...">>

\* HandleYouTubePublish, without setIsUploadComplete(false)
HandleYouTubePublishKeepsComplete ==
  /\ ~Blocked /\ youtubeMetadata.set /\ isDurationValid /\ isRendered
  /\ isUploading' = TRUE
  /\ uploadProgress' = 0
  /\ pubCurrent' = 0
  /\ pubIdx' = 1
  /\ uploadStage' = UploadStages[1]
  /\ pubPc' = "enter"
  /\ UNCHANGED <<keyVars, tourVars, clipVars, renderVars, isUploadComplete>>

\* HandleYouTubePublish, offered and run for any project of valid length
HandleYouTubePublishUnrendered ==
  /\ ~Blocked /\ youtubeMetadata.set /\ isDurationValid
  /\ isUploading' = TRUE
  /\ uploadProgress' = 0
  /\ isUploadComplete' = FALSE
  /\ pubCurrent' = 0
  /\ pubIdx' = 1
  /\ uploadStage' = UploadStages[1]
  /\ pubPc' = "enter"
  /\ UNCHANGED <<keyVars, tourVars, clipVars, renderVars>>

\* the "Push to YouTube" button: disabled unless the duration is valid and the
\* project is rendered
HandleYouTubePublish ==
  /\ ~Blocked /\ youtubeMetadata.set /\ isDurationValid /\ isRendered
  /\ IF ~isDurationValid \/ ~isRendered
       THEN /\ error' = IF ~isRendered
                          THEN "Assembly required: Please render your project before publishing."
                          ELSE error
            /\ UNCHANGED pubVars
       ELSE /\ isUploading' = TRUE
            /\ uploadProgress' = 0
            /\ isUploadComplete' = FALSE
            /\ pubCurrent' = 0
            /\ pubIdx' = 1
            /\ uploadStage' = UploadStages[1]
            /\ pubPc' = "enter"
            /\ UNCHANGED error
  /\ UNCHANGED <<hasKey, envKey, aistudio, keyCheck, keySel, tourVars, clipVars,
                 renderVars>>

\* one pass of the upload loop's body, then the 100 ms sleep
PublishIterate ==
  /\ pubPc \in {"enter", "wait"}
  /\ \E inc \in UploadIncs :
       /\ pubCurrent' = Advance(pubCurrent, inc)
       /\ uploadProgress' = Floor(Advance(pubCurrent, inc))
  /\ pubPc' = "wait"
  /\ UNCHANGED <<keyVars, tourVars, clipVars, renderVars, isUploading, uploadStage,
                 isUploadComplete, pubIdx>>

\* the stage's duration has passed: the next stage starts, or the upload is done
\* and the 800 ms timer is set
PublishStageOver ==
  /\ pubPc = "wait"
  /\ IF pubIdx < Len(UploadStages)
       THEN /\ pubIdx' = pubIdx + 1
            /\ uploadStage' = UploadStages[pubIdx + 1]
            /\ pubPc' = "enter"
            /\ UNCHANGED uploadProgress
       ELSE /\ uploadProgress' = 100
            /\ uploadStage' = "Broadcast Ready!"
            /\ pubPc' = "timer"
            /\ pubIdx' = 1
  /\ pubCurrent' = IF pubIdx < Len(UploadStages) THEN pubCurrent ELSE 0
  /\ UNCHANGED <<keyVars, tourVars, clipVars, renderVars, isUploading,
                 isUploadComplete>>

\* the timer's callback: setIsUploadComplete(true)
PublishTimer ==
  /\ pubPc = "timer"
  /\ isUploadComplete' = TRUE
  /\ pubPc' = "none"
  /\ UNCHANGED <<keyVars, tourVars, clipVars, renderVars, isUploading, uploadProgress,
                 uploadStage, pubIdx, pubCurrent>>

\* "Return to Projects" in the completion dialog: setIsUploading(false)
DismissUpload ==
  /\ isUploading /\ isUploadComplete
  /\ isUploading' = FALSE
  /\ UNCHANGED <<keyVars, tourVars, clipVars, renderVars, uploadProgress, uploadStage,
                 isUploadComplete, pubPc, pubIdx, pubCurrent>>

\* ------------------------------------------------------------------ Init
Init ==
  /\ hasKey = "null"
  /\ envKey \in BOOLEAN
  /\ aistudio \in BOOLEAN
  /\ keyCheck = TRUE
  /\ keySel = FALSE
  /\ error = NoError
  /\ input = [name |-> "", description |-> "", screenshots |-> <<>>]
  /\ pendingShots = 0
  /\ step = "input"
  /\ scenes = <<>>
  /\ progress = 0
  /\ tourPc = "none"
  /\ sceneIdx = 1
  /\ runShots = 0
  /\ vpc = "idle"
  /\ operation = "none"
  /\ polls = 0
  /\ videoResult = "none"
  /\ clips = <<>>
  /\ clipObjs = <<>>
  /\ uploads = <<>>
  /\ isProcessing = FALSE
  /\ includeVoiceover = TRUE
  /\ isRendering = FALSE
  /\ isRendered = FALSE
  /\ combinedVideoUrl = 0
  /\ youtubeMetadata = [set |-> FALSE, from |-> <<>>]
  /\ procPc = "none"
  /\ procClips = <<>>
  /\ procIdx = 1
  /\ procVoice = TRUE
  /\ metaArg = <<>>
  /\ renderPc = "none"
  /\ renderIdx = 1
  /\ renderCurrent = 0
  /\ renderClips = <<>>
  /\ renderProgress = 0
  /\ renderStage = ""
  /\ isUploading = FALSE
  /\ uploadProgress = 0
  /\ uploadStage = ""
  /\ isUploadComplete = FALSE
  /\ pubPc = "none"
  /\ pubIdx = 1
  /\ pubCurrent = 0

NextTour ==
  \/ CheckKeyStatus
  \/ ClickConnectKey
  \/ KeySelectionDone
  \/ DismissError
  \/ SetName
  \/ SetDescription
  \/ HandleScreenshotUpload
  \/ ScreenshotLoaded
  \/ RemoveScreenshot
  \/ StartGeneration
  \/ StoryboardReturns
  \/ StoryboardThrows
  \/ SceneLoop
  \/ GenerateVideosReturns
  \/ PollSleepElapsed
  \/ PollReturns
  \/ VideoRequestFails
  \/ FetchReturns
  \/ BlobReturns
  \/ NarrationReturns
  \/ NarrationThrows

SpecTour == Init /\ [][NextTour]_vars

\* The editor's clip list and its analysis run.  The render and upload dialogs
\* write none of the clip variables and only take clicks away (Blocked), so
\* every clip behaviour of the whole page is a behaviour of this specification.
NextClips ==
  \/ CheckKeyStatus
  \/ ClickConnectKey
  \/ KeySelectionDone
  \/ DismissError
  \/ HandleEditorVideoUpload
  \/ EditorUploadDone
  \/ RemoveClip
  \/ ToggleVoiceover
  \/ ProcessEditorClips
  \/ AnalyzeReturns
  \/ AnalyzeThrows
  \/ ClipNarrationReturns
  \/ ClipNarrationThrows
  \/ MetadataReturns
  \/ MetadataThrows

SpecClips == Init /\ [][NextClips]_vars

\* The publish centre: the clip list, a successful analysis run, the render
\* and the upload simulation.
NextStudio ==
  \/ HandleEditorVideoUpload
  \/ EditorUploadDone
  \/ RemoveClip
  \/ ProcessEditorClips
  \/ AnalyzeReturns
  \/ ClipNarrationReturns
  \/ MetadataReturns
  \/ HandleRenderProject
  \/ RenderIterate
  \/ RenderStageOver
  \/ RenderTimer
  \/ HandleYouTubePublish
  \/ PublishIterate
  \/ PublishStageOver
  \/ PublishTimer
  \/ DismissUpload

\* a build that carries an API key, opened outside AI Studio
InitStudio == Init /\ envKey /\ ~aistudio

SpecStudio == InitStudio /\ [][NextStudio]_vars

\* a timer that was set fires
FairSpecStudio == SpecStudio /\ WF_vars(RenderTimer) /\ WF_vars(PublishTimer)

\* The assembly engine: the clip list, a successful analysis run and the render.
\* A render and an upload never overlap (each dialog takes the clicks that
\* start the other) and the upload writes none of the render's variables.
NextRender ==
  \/ HandleEditorVideoUpload
  \/ EditorUploadDone
  \/ RemoveClip
  \/ ProcessEditorClips
  \/ AnalyzeReturns
  \/ ClipNarrationReturns
  \/ MetadataReturns
  \/ HandleRenderProject
  \/ RenderIterate
  \/ RenderStageOver
  \/ RenderTimer

SpecRender == InitStudio /\ [][NextRender]_vars

\* The render run goes on by itself: a stage's loop body runs at least once,
\* the clock passes each stage's duration, and the timer that was set fires.
RenderSteps ==
  \/ renderPc = "enter" /\ RenderIterate
  \/ RenderStageOver
  \/ RenderTimer

FairSpecRender == SpecRender /\ WF_vars(RenderSteps)

\* One tour run after another with storyboards of any length, in a build that
\* carries an API key: the form's two required fields and the run.
NextProgress ==
  \/ SetName
  \/ SetDescription
  \/ StartGeneration
  \/ LongStoryboardReturns
  \/ StoryboardThrows
  \/ SceneLoop
  \/ GenerateVideosReturns
  \/ PollSleepElapsed
  \/ PollReturns
  \/ VideoRequestFails
  \/ FetchReturns
  \/ BlobReturns
  \/ NarrationReturns
  \/ NarrationThrows

SpecProgress == InitStudio /\ [][NextProgress]_vars

\* the whole page
Next == NextTour \/ NextClips \/ NextStudio \/ NextProgress

Spec == Init /\ [][Next]_vars

\* The steps the page takes on its own once a tour run is under way: a pending
\* request settles, a sleep ends, the code after an await runs.
TourSteps ==
  \/ StoryboardReturns
  \/ StoryboardThrows
  \/ SceneLoop
  \/ GenerateVideosReturns
  \/ PollSleepElapsed
  \/ PollReturns
  \/ VideoRequestFails
  \/ FetchReturns
  \/ BlobReturns
  \/ NarrationReturns
  \/ NarrationThrows

\* every request settles and every timer fires
FairSpecTour == SpecTour /\ WF_vars(TourSteps)

\* ======================================================================
\* The claims
\* ======================================================================

StepMoves == {<<"input", "processing">>, <<"processing", "generating">>,
              <<"generating", "final">>, <<"processing", "input">>}

\* C1: every change of state.step is input->processing, processing->generating,
\* generating->final or processing->input; generating is entered only by the step
\* that receives the storyboard (all its scenes pending), final only from
\* generating, and a step that is final never changes.
C1_LinearFlow ==
  [][step' # step =>
       /\ <<step, step'>> \in StepMoves
       /\ step' = "generating" =>
            /\ tourPc = "storyboard"
            /\ \A p \in 1..Len(scenes') : scenes'[p].status = "pending"
       /\ step # "final"]_vars

\* C1 witness: a run went all the way to final, one scene failed, one completed
C1_Witness ==
  /\ step = "final"
  /\ \E p, q \in 1..Len(scenes) :
       scenes[p].status = "failed" /\ scenes[q].status = "completed"

\* C3 (as claimed): a run that is over has left step at final or back at input
C3_RunEndsOutsideWorking ==
  tourPc = "none" => step \in {"input", "final"}

Generating == {p \in 1..Len(scenes) : scenes[p].status = "generating"}

SceneMoves == {<<"pending", "generating">>, <<"generating", "completed">>,
               <<"generating", "failed">>}

\* C6: at most one scene is generating; a scene's status changes only
\* pending->generating, generating->completed or generating->failed; and a scene
\* has left pending only when every scene before it is completed or failed.
C6_ScenesInOrder ==
  /\ [](Cardinality(Generating) <= 1)
  /\ [](\A p, q \in 1..Len(scenes) :
          (p < q /\ scenes[q].status # "pending")
             => scenes[p].status \in {"completed", "failed"})
  /\ [][IF scenes = <<>>
          THEN \A p \in 1..Len(scenes') : scenes'[p].status = "pending"
          ELSE /\ Len(scenes') = Len(scenes)
               /\ \A p \in 1..Len(scenes) :
                    scenes'[p].status # scenes[p].status
                      => <<scenes[p].status, scenes'[p].status>> \in SceneMoves]_vars

\* C6 witness: the second scene is generated after the first one failed
C6_Witness ==
  /\ Len(scenes) >= 2
  /\ scenes[1].status = "failed"
  /\ scenes[2].status = "generating"

C8_PollingTerminates ==
  /\ ((vpc # "idle") ~> (vpc = "idle")) \/ <>[](vpc # "idle" /\ operation = "running")
  /\ [][(vpc # "idle" /\ vpc' = "idle")
          => (Done(operation') \/ videoResult' \in ErrMsgs)]_vars
  /\ [](vpc # "idle" => (tourPc = "video" /\ step = "generating"))

\* C8 witness: the poll counter is at its cap and the call is still polling
C8_Witness ==
  /\ polls = MaxPolls
  /\ vpc = "sleep"
  /\ operation = "running"

\* a step of the processEditorClips run (its position changes)
RunStep == procPc # "none" /\ <<procPc', procIdx'>> # <<procPc, procIdx>>

ClipMoves(voice) ==
  {<<"idle", "analyzing">>, <<"analyzing", "generating-audio">>,
   <<"generating-audio", "ready">>, <<"analyzing", "idle">>,
   <<"generating-audio", "idle">>}
  \cup (IF voice THEN {} ELSE {<<"analyzing", "ready">>})

\* C2: a clip's status changes only idle->analyzing, analyzing->generating-audio,
\* generating-audio->ready, analyzing->ready (voiceover off), or back to idle from
\* analyzing or generating-audio in the step that ends a failed run; a clip that
\* is ready keeps that status; a new clip is idle.
C2_ClipStatusMachine ==
  [][/\ \A id \in 1..Len(clipObjs) :
          clipObjs'[id].status # clipObjs[id].status
            => /\ <<clipObjs[id].status, clipObjs'[id].status>> \in ClipMoves(procVoice)
               /\ clipObjs[id].status # "ready"
               /\ clipObjs'[id].status = "idle" => (isProcessing /\ ~isProcessing')
     /\ \A id \in (Len(clipObjs) + 1)..Len(clipObjs') :
          clipObjs'[id].status = "idle"]_vars

\* C2 witness: one clip became ready without audio (voiceover off), another is
\* back at idle after its narration call failed
C2_Witness ==
  \E a, b \in 1..Len(clipObjs) :
    /\ clipObjs[a].status = "ready" /\ ~clipObjs[a].audioUrl
    /\ clipObjs[b].status = "idle" /\ clipObjs[b].analysed

\* C4 (as claimed): the run leaves the clip list as the user's actions made it
C4_RunKeepsUserList == [][RunStep => clips' = clips]_vars

Busy == {id \in 1..Len(clipObjs) : clipObjs[id].status \in {"analyzing", "generating-audio"}}

\* C5: at most one clip is analyzing or generating-audio, it is the clip the
\* run is at, and every clip before it, in the run's list and in the list on
\* the page, is ready.
C5_OneClipAtATime ==
  /\ Cardinality(Busy) <= 1
  /\ \A id \in Busy :
       /\ procPc \in {"analyze", "narration"}
       /\ procClips[procIdx] = id
       /\ \A k \in 1..(procIdx - 1) : clipObjs[procClips[k]].status = "ready"
  /\ \A j, k \in 1..Len(clips) :
       (k < j /\ clips[j] \in Busy) => clipObjs[clips[k]].status = "ready"

\* C5 witness: the second clip is analysed, the first one is ready
C5_Witness ==
  /\ procPc = "analyze" /\ procIdx = 2
  /\ clipObjs[procClips[1]].status = "ready"
  /\ clipObjs[procClips[2]].status = "analyzing"

\* C9: renderProgress is always within 0..100; while a stage runs it is at most
\* 99 and the stage shown is the stage run; it is 100 exactly when the stage is
\* 'Export Successful!'; it decreases only in the step that starts a run, which
\* sets it to 0; the stages run in order, and 100 is set by the step that ends
\* the fifth.
C9_RenderProgress ==
  /\ [](renderProgress \in 0..100)
  /\ [](renderPc \in {"enter", "wait"} =>
          (renderProgress <= MaxSimulated /\ renderStage = RenderStages[renderIdx]))
  /\ [](renderProgress = 100 <=> renderStage = "Export Successful!")
  /\ [][/\ renderProgress' < renderProgress
             => (renderPc = "none" /\ renderPc' = "enter")
        /\ (renderPc # "enter" /\ renderPc' = "enter")
             => (renderProgress' = 0 \/ renderIdx' = renderIdx + 1)
        /\ (renderPc = "none" /\ renderPc' = "enter")
             => (renderProgress' = 0 /\ renderIdx' = 1)
        /\ (renderProgress' = 100 /\ renderProgress # 100)
             => (renderPc = "wait" /\ renderIdx = Len(RenderStages))]_vars

\* C9 witness: the cap of 99 is reached while the third stage is running
C9_Witness ==
  /\ renderPc = "wait"
  /\ renderIdx = 3
  /\ renderProgress = MaxSimulated

\* C10: while the upload loop runs isUploadComplete is false; it is true only
\* with uploadProgress 100 and stage 'Broadcast Ready!', and once these are set
\* it becomes true; isUploading is true during the run and is withdrawn only
\* from the completion dialog; starting a publish sets isUploadComplete to
\* false and uploadProgress to 0.
C10_PublishCompletes ==
  /\ [](pubPc # "none" => (isUploading /\ ~isUploadComplete))
  /\ [](isUploadComplete => (uploadProgress = 100 /\ uploadStage = "Broadcast Ready!"))
  /\ (isUploading /\ uploadProgress = 100 /\ uploadStage = "Broadcast Ready!")
        ~> isUploadComplete
  /\ [][/\ (isUploading /\ ~isUploading') => isUploadComplete
        /\ (pubPc = "none" /\ pubPc' = "enter")
             => (isUploading' /\ ~isUploadComplete' /\ uploadProgress' = 0)]_vars

\* C10 witness: the completion dialog of a finished upload
C10_Witness ==
  /\ isUploading /\ isUploadComplete
  /\ uploadProgress = 100
  /\ pubPc = "none"

C12_MetadataFromAnalysedClips ==
  /\ [](procPc = "metadata" =>
          /\ isProcessing
          /\ metaArg = ReadyClips(clipObjs, procClips)
          /\ \A k \in 1..Len(procClips) :
               clipObjs[procClips[k]].status = "ready" /\ clipObjs[procClips[k]].analysed)
  /\ [][(procPc # "metadata" /\ procPc' = "metadata")
          => metaArg' = ReadyClips(clipObjs', clips')]_vars
  /\ [][youtubeMetadata' # youtubeMetadata
          => /\ procPc = "metadata" /\ procPc' = "none"
             /\ isProcessing /\ ~isProcessing'
             /\ youtubeMetadata' = [set |-> TRUE, from |-> metaArg]
             /\ error' = error]_vars
  /\ [][(AnalyzeThrows \/ ClipNarrationThrows \/ MetadataThrows)
          => (youtubeMetadata' = youtubeMetadata /\ procPc' = "none")]_vars

\* C12 witness: the metadata of an earlier run is still there after a later
\* run failed at a new clip
C12_Witness ==
  /\ youtubeMetadata.set /\ Len(youtubeMetadata.from) = 1
  /\ procPc = "none" /\ ~isProcessing /\ error # NoError
  /\ \E k \in 1..Len(clips) :
       clipObjs[clips[k]].status = "idle" /\ clipObjs[clips[k]].analysed

\* C13 (as claimed): when a run ends successfully and the voiceover switch was
\* on for the whole run, every ready clip of the project has an audioUrl,
\* whatever runs and toggles came before.
C13_ReadyClipsHaveAudio ==
  [][(MetadataReturns /\ procVoice /\ includeVoiceover)
       => \A k \in 1..Len(clips') :
            clipObjs'[clips'[k]].status = "ready" => clipObjs'[clips'[k]].audioUrl]_vars

\* C14: narration is requested for a scene only after its video call returned a
\* URL (the operation was reported done), and while the video call is pending
\* the scene has neither URL; a scene is completed exactly when it has both
\* videoUrl and audioUrl, and it becomes completed only in the step in which the
\* narration call returns; a scene that is pending, generating or failed has
\* neither videoUrl nor audioUrl, also when only its narration failed.
C14_VideoThenNarration ==
  /\ [](tourPc = "narration" =>
          /\ videoResult = "url" /\ vpc = "idle" /\ operation = "doneUri"
          /\ scenes[sceneIdx].status = "generating")
  /\ [](\A p \in 1..Len(scenes) :
          /\ scenes[p].status = "completed" <=> (scenes[p].videoUrl /\ scenes[p].audioUrl)
          /\ scenes[p].status # "completed" => (~scenes[p].videoUrl /\ ~scenes[p].audioUrl))
  /\ [][\A p \in 1..Len(scenes) :
          (Len(scenes') = Len(scenes) /\ scenes[p].status # "completed"
             /\ scenes'[p].status = "completed")
            => (tourPc = "narration" /\ p = sceneIdx /\ videoResult = "url")]_vars

\* C14 witness: the first scene failed at its narration call after its video
\* had been generated
C14_Witness ==
  /\ tourPc = "loop" /\ sceneIdx = 2
  /\ scenes[1].status = "failed"
  /\ videoResult = "url"
  /\ ~scenes[1].videoUrl /\ ~scenes[1].audioUrl

\* the step in which a clip's analysis or narration call throws
ClipFails == procPc \in {"analyze", "narration"} /\ procPc' = "none"

\* C15: a run leaves a clip's analysis or narration call without going on only
\* when the call throws; in that step the clip's status becomes idle, every
\* other clip object and the list stay as they are, error is non-null,
\* isProcessing becomes false and the run is over; with no run no clip is
\* analyzing or generating-audio, and isProcessing tells whether a run is on.
C15_FailingClipStopsRun ==
  /\ [][(AnalyzeThrows \/ ClipNarrationThrows) => ClipFails]_vars
  /\ [][ClipFails =>
          /\ clipObjs'[procClips[procIdx]].status = "idle"
          /\ Len(clipObjs') = Len(clipObjs)
          /\ \A o \in 1..Len(clipObjs) :
               o # procClips[procIdx] => clipObjs'[o] = clipObjs[o]
          /\ clips' = clips
          /\ error' # NoError
          /\ isProcessing /\ ~isProcessing']_vars
  /\ [](procPc = "none" => Busy = {})
  /\ [](isProcessing <=> procPc # "none")

\* C15 witness: the first of two clips failed at its narration call; the second
\* was never analysed
C15_Witness ==
  /\ procPc = "none" /\ ~isProcessing /\ error # NoError
  /\ Len(clips) = 2
  /\ clipObjs[clips[1]].status = "idle" /\ clipObjs[clips[1]].analysed
  /\ clipObjs[clips[2]].status = "idle" /\ ~clipObjs[clips[2]].analysed

\* the step in which a scene's video or narration call throws
SceneFails ==
  /\ tourPc \in {"video", "narration"} /\ tourPc' \in {"loop", "none"}
  /\ scenes'[sceneIdx].status # "completed"

\* what handleGlobalError shows for an error it classifies as key or 500 error
ClassifiedTexts == {"API Key invalid or missing. Please check your credentials.",
                    "Internal error (500). Please re-select your key."}

\* C16: when a scene's call throws an error that is not classified, the scene
\* becomes failed, the other scenes are untouched and the loop goes on with the
\* next scene; the loop then starts that scene or, after the last scene, sets
\* step to final, so final is reached with every scene completed or failed
\* (also all failed); when the error is classified the run ends in that step
\* with step and scenes unchanged, and from then on step stays generating and
\* no scene changes.
C16_SceneFailureIsolation ==
  /\ [][SceneFails =>
          /\ error' # NoError
          /\ step = "generating" /\ step' = "generating"
          /\ IF error' \in ClassifiedTexts
               THEN /\ tourPc' = "none"
                    /\ scenes' = scenes
                    /\ hasKey' = "false"
               ELSE /\ tourPc' = "loop"
                    /\ sceneIdx' = sceneIdx + 1
                    /\ scenes'[sceneIdx].status = "failed"
                    /\ \A p \in 1..Len(scenes) : p # sceneIdx => scenes'[p] = scenes[p]
                    /\ hasKey' = hasKey]_vars
  /\ [][(tourPc = "loop" /\ tourPc' # "loop") =>
          IF sceneIdx <= Len(scenes)
            THEN tourPc' = "video" /\ scenes'[sceneIdx].status = "generating"
            ELSE tourPc' = "none" /\ step' = "final"]_vars
  /\ [][(tourPc = "none" /\ step = "generating")
          => (tourPc' = "none" /\ step' = "generating" /\ scenes' = scenes)]_vars
  /\ [](step = "final" =>
          \A p \in 1..Len(scenes) : scenes[p].status \in {"completed", "failed"})

\* C16 witness: both scenes failed and the flow is at final
C16_Witness ==
  /\ step = "final" /\ Len(scenes) = 2
  /\ scenes[1].status = "failed" /\ scenes[2].status = "failed"

\* the texts the claim lists, and every message a service call throws here
ClaimedTokens == {"Requested entity was not found", "API_KEY", "401", "403", "500",
                  "INTERNAL"}
Thrown == ErrMsgs \cup {MsgNoUri, MsgTts}

\* C17: whenever handleGlobalError runs on a message (in the scene loop's catch,
\* where its return value decides whether the run returns, and in the
\* storyboard's catch): it returns true and hasKey becomes false exactly when
\* the message contains one of the six texts, and otherwise it returns false and
\* hasKey is unchanged; the key-error text is shown when a key text matches,
\* also if a 500 text matches too, the 500 text when only a 500 text matches;
\* error is non-null afterwards.
C17_ErrorClassification ==
  /\ [][\A msg \in Thrown :
          (tourPc \in {"video", "narration"} /\ SceneCatch(msg)) =>
            LET listed == \E t \in ClaimedTokens : Includes(msg, t)
                key    == \E t \in {"Requested entity was not found", "API_KEY", "401", "403"} :
                             Includes(msg, t)
            IN /\ (tourPc' = "none") <=> listed
               /\ hasKey' = IF listed THEN "false" ELSE hasKey
               /\ error' # NoError
               /\ key => error' = "API Key invalid or missing. Please check your credentials."
               /\ (listed /\ ~key) => error' = "Internal error (500). Please re-select your key."
               /\ ~listed => error' \notin ClassifiedTexts]_vars
  /\ [][\A msg \in Thrown :
          (tourPc = "storyboard" /\ tourPc' = "none" /\ HandleGlobalError(msg)) =>
            LET listed == \E t \in ClaimedTokens : Includes(msg, t)
            IN /\ hasKey' = IF listed THEN "false" ELSE hasKey
               /\ error' # NoError
               /\ listed <=> error' \in ClassifiedTexts]_vars

\* C17 witness: a message with both a key text and a 500 text was classified as
\* key error and ended the run
C17_Witness ==
  /\ videoResult = "API_KEY rejected (500)"
  /\ error = "API Key invalid or missing. Please check your credentials."
  /\ hasKey = "false"
  /\ tourPc = "none" /\ step = "generating"

\* C18: from a state at the form with no run, in which the API is not ready or
\* name or description is empty, no step changes step, scenes or progress or
\* starts a run (so no service call is made); there startGeneration with the API
\* ready only sets error to 'Please provide at least a name and description.',
\* and with the API not ready only runs key selection.
C18_StartGenerationGuarded ==
  /\ [][(step = "input" /\ tourPc = "none"
          /\ (~isApiReady \/ input.name = "" \/ input.description = ""))
          => /\ step' = step /\ scenes' = scenes /\ progress' = progress
             /\ tourPc' = "none" /\ vpc' = "idle"]_vars
  /\ [][(StartGeneration /\ isApiReady /\ (input.name = "" \/ input.description = ""))
          => /\ error' = "Please provide at least a name and description."
             /\ UNCHANGED <<hasKey, keySel, tourVars>>]_vars
  /\ [][(StartGeneration /\ ~isApiReady)
          => /\ UNCHANGED <<hasKey, tourVars>>
             /\ \/ keySel' /\ error' = error
                \/ keySel' = keySel
                   /\ error' = "API Key selection is only available in the AI Studio environment."]_vars

\* C18 witness: Generate was clicked with a name and no description
C18_Witness ==
  /\ error = "Please provide at least a name and description."
  /\ input.name # "" /\ input.description = ""
  /\ step = "input" /\ tourPc = "none" /\ progress = 0 /\ scenes = <<>>

\* C19: while no run is on and the API is not ready or the clip list is empty,
\* no step starts a run (no service call), changes isProcessing or
\* youtubeMetadata, or changes a clip; there processEditorClips with the API not
\* ready only sets error to 'AI analysis requires an API Key.', and with the API
\* ready and an empty list changes nothing.
C19_ProcessEditorClipsGuarded ==
  /\ [][(procPc = "none" /\ (~isApiReady \/ clips = <<>>))
          => /\ procPc' = "none"
             /\ isProcessing' = isProcessing
             /\ youtubeMetadata' = youtubeMetadata
             /\ \A id \in 1..Len(clipObjs) : clipObjs'[id] = clipObjs[id]]_vars
  /\ [][(ProcessEditorClips /\ ~isApiReady)
          => /\ error' = "AI analysis requires an API Key."
             /\ UNCHANGED <<hasKey, keySel, clipVars>>]_vars
  /\ [][(ProcessEditorClips /\ isApiReady /\ clips = <<>>)
          => UNCHANGED <<error, hasKey, keySel, clipVars>>]_vars

\* C19 witness: Analyze Project was clicked without a key; the clip is untouched
C19_Witness ==
  /\ error = "AI analysis requires an API Key."
  /\ ~isApiReady
  /\ Len(clips) = 1 /\ clipObjs[clips[1]].status = "idle" /\ ~clipObjs[clips[1]].analysed
  /\ ~isProcessing /\ procPc = "none" /\ ~youtubeMetadata.set

\* C20: while no render runs and the total clip duration is below MIN_DURATION
\* no step starts a render, changes renderProgress or sets isRendered;
\* isRendering is true exactly while a render run is on; isRendered becomes true
\* only in the step that ends the run, after renderProgress was set to 100; and
\* a render that was started ends with isRendering false and isRendered true.
C20_RenderGatedAndCompletes ==
  /\ [][(renderPc = "none" /\ totalDuration < MIN_DURATION)
          => /\ renderPc' = "none"
             /\ isRendering' = isRendering
             /\ renderProgress' = renderProgress
             /\ isRendered' => isRendered]_vars
  /\ [](isRendering <=> renderPc # "none")
  /\ [][(~isRendered /\ isRendered')
          => /\ renderPc = "timer" /\ renderPc' = "none"
             /\ renderProgress = 100 /\ renderStage = "Export Successful!"
             /\ isRendering /\ ~isRendering']_vars
  /\ isRendering ~> (~isRendering /\ isRendered)

\* C20 witness: a render has run to its end
C20_Witness ==
  /\ ~isRendering /\ isRendered
  /\ renderPc = "none" /\ renderProgress = 100
  /\ combinedVideoUrl # 0
  /\ totalDuration >= MIN_DURATION

\* C21 (as claimed): progress is 10 in processing, 30 + 10*i while scene i is
\* generated (30 when the storyboard arrives), 100 at final; it stays within
\* 0..100 and no step of a run decreases it, whatever the storyboard's length.
C21_ProgressValue ==
  /\ [](step = "processing" => progress = 10)
  /\ [](tourPc \in {"video", "narration"} => progress = SceneProgress(sceneIdx - 1))
  /\ [](step = "final" => progress = 100)
  /\ [](progress \in 0..100)
  /\ [][tourPc # "none" => progress' >= progress]_vars

\* C22: the scenes of the storyboard stand in the order of the reply, scene p
\* (counted from 0) has id scene-p, the ids are distinct, the scenes arrive
\* pending with no video or audio, and screenshotIndex is p when p is below the
\* number of screenshots the run was started with and undefined otherwise; so
\* a defined screenshotIndex is an index into the screenshots of the run's
\* input, and into those now held by the page.
C22_StoryboardShape ==
  /\ [](\A p \in 1..Len(scenes) :
          /\ scenes[p].item = p - 1
          /\ scenes[p].id = p - 1
          /\ \A q \in 1..Len(scenes) : q # p => scenes[q].id # scenes[p].id
          /\ scenes[p].screenshotIndex = (IF p - 1 < runShots THEN p - 1 ELSE Undefined)
          /\ scenes[p].screenshotIndex # Undefined
               => /\ scenes[p].screenshotIndex \in 0..(runShots - 1)
                  /\ scenes[p].screenshotIndex \in 0..(Len(input.screenshots) - 1))
  /\ [][(step = "processing" /\ step' = "generating")
          => \A p \in 1..Len(scenes') :
               /\ scenes'[p].status = "pending"
               /\ ~scenes'[p].videoUrl /\ ~scenes'[p].audioUrl]_vars

\* C22 witness: two scenes for one screenshot; the second scene, which has no
\* screenshot, is being generated
C22_Witness ==
  /\ Len(scenes) = 2 /\ runShots = 1
  /\ scenes[1].screenshotIndex = 0
  /\ scenes[2].screenshotIndex = Undefined
  /\ tourPc = "video" /\ sceneIdx = 2

\* C23: the step in which an upload's durations are all known appends to the
\* list, after the clips already there, one new idle clip per file of that
\* selection in the selection's order, and sets isRendered to false; the clip
\* objects that existed, isProcessing, includeVoiceover, youtubeMetadata and
\* the other pending uploads are unchanged; selecting files changes none of
\* these.
C23_UploadAppendsClips ==
  /\ [][Len(uploads') < Len(uploads) =>
          \E u \in 1..Len(uploads) :
            LET b == uploads[u] IN
            /\ uploads' = RemoveAt(uploads, u)
            /\ Len(clips') = Len(clips) + Len(b)
            /\ SubSeq(clips', 1, Len(clips)) = clips
            /\ Len(clipObjs') = Len(clipObjs) + Len(b)
            /\ \A k \in 1..Len(b) :
                 /\ clips'[Len(clips) + k] = Len(clipObjs) + k
                 /\ clipObjs'[Len(clipObjs) + k].status = "idle"
                 /\ clipObjs'[Len(clipObjs) + k].duration = b[k]
                 /\ ~clipObjs'[Len(clipObjs) + k].analysed
                 /\ ~clipObjs'[Len(clipObjs) + k].audioUrl
            /\ \A id \in 1..Len(clipObjs) : clipObjs'[id] = clipObjs[id]
            /\ ~isRendered'
            /\ UNCHANGED <<isProcessing, includeVoiceover, youtubeMetadata>>]_vars
  /\ [][Len(uploads') > Len(uploads)
          => UNCHANGED <<clips, clipObjs, isRendered, isProcessing, includeVoiceover,
                         youtubeMetadata>>]_vars

\* C23 witness: a clip was added behind the clip of a project that had been
\* rendered
C23_Witness ==
  /\ uploads = <<>>
  /\ Len(clips) = 2
  /\ clipObjs[clips[1]].status = "ready"
  /\ clipObjs[clips[2]].status = "idle"
  /\ combinedVideoUrl # 0 /\ ~isRendered

\* C24 (as claimed): whenever isRendered is true the clips in the list last at
\* least MIN_DURATION, and the list is the rendered one: isRendered is set only
\* with the list as it was when the render started, and every later change of
\* the list resets it.
C24_RenderedListInvariant ==
  /\ [](isRendered => totalDuration >= MIN_DURATION)
  /\ [][(~isRendered /\ isRendered') => clips' = renderClips]_vars
  /\ [][(isRendered /\ clips' # clips) => ~isRendered']_vars

====
